---- MODULE Spec2Model ----
(***************************************************************************)
(* Model of db/design_doc.go of sync_gateway: the design-document access   *)
(* gate, the view-result filter, the N1QL result filter and the map        *)
(* function wrapper installed by wrapViews.                                *)
(*                                                                         *)
(* Strings whose characters matter (design-document names, document ids)   *)
(* are sequences of one-character strings; query texts are sequences of    *)
(* tokens.  A nil pointer/interface is a record whose `present' field is   *)
(* FALSE.                                                                  *)
(***************************************************************************)
EXTENDS Integers, Sequences, FiniteSets, TLC

VARIABLES ddocs, call

vars == <<ddocs, call>>

\* Longest row sequence the store returns to one query.
MaxRows == 2

\* Longest body (in steps) of a user-supplied map function.
MaxSteps == 2

-----------------------------------------------------------------------------
(* Strings *)

HasPrefix(s, prefix) ==
    /\ Len(s) >= Len(prefix)
    /\ SubSeq(s, 1, Len(prefix)) = prefix

\* s.substring(0, n) of JavaScript: the first n characters, fewer if s is shorter.
Substring0(s, n) == SubSeq(s, 1, IF Len(s) < n THEN Len(s) ELSE n)

InternalPrefix == <<"s", "y", "n", "c", "_">>

DesignDocSyncGateway == <<"s", "y", "n", "c", "_", "g", "a", "t", "e", "w", "a", "y">>

\* Design-document names of the requests: the built-in one, a user-defined
\* one, and a user-defined one that is a proper prefix of the reserved marker.
NameByType == <<"b", "y", "T", "y", "p", "e">>
NameSync == <<"s", "y", "n", "c">>
DDocNames == {DesignDocSyncGateway, NameByType, NameSync}

isInternalDDoc_never(ddocName) == FALSE

isInternalDDoc(ddocName) == HasPrefix(ddocName, InternalPrefix)

-----------------------------------------------------------------------------
(* Principals and channel sets *)

Wildcard == "*"

\* Channels a user may be granted; "b" is granted to nobody.
UserChannels == {"a", Wildcard}

NoUser == [present |-> FALSE, channels |-> {}]
Users == {NoUser} \cup {[present |-> TRUE, channels |-> S] : S \in SUBSET UserChannels}

\* user.InheritedChannels()
InheritedChannels(user) == user.channels

\* ch.TimedSet.Contains
Contains(set, channel) == channel \in set

RECURSIVE channelsIntersect_nowildcard(_, _)
channelsIntersect_nowildcard(visibleChannels, channels) ==
    IF channels = <<>> THEN FALSE
    ELSE IF Contains(visibleChannels, Head(channels)) THEN TRUE
    ELSE channelsIntersect_nowildcard(visibleChannels, Tail(channels))

RECURSIVE channelsIntersect(_, _)
channelsIntersect(visibleChannels, channels) ==
    IF channels = <<>> THEN FALSE
    ELSE IF Contains(visibleChannels, Head(channels)) \/ Head(channels) = Wildcard THEN TRUE
    ELSE channelsIntersect(visibleChannels, Tail(channels))

-----------------------------------------------------------------------------
(* View rows *)

\* Channel lists a wrapped view attaches to its rows.
ChannelLists == {<<>>, <<"a">>, <<"b">>, <<Wildcard>>, <<"b", "a">>, <<"b", Wildcard>>}

\* A row value is either the pair [channels, actual] a wrapped map function
\* emits, or anything else (an aggregate, the value of an unwrapped view).
TaggedValues == {[tagged |-> TRUE, channels |-> c, actual |-> "v"] : c \in ChannelLists}
PlainValue(v) == [tagged |-> FALSE, channels |-> <<>>, actual |-> v]
PlainValues == {PlainValue("v")}

\* row.Doc: nil, or a document with or without its "_sync" property.
NoDoc == [present |-> FALSE, sync |-> FALSE]
Docs == {[present |-> TRUE, sync |-> s] : s \in BOOLEAN}

\* The rows of a result, by what varies in them: row i has key i (the store
\* returns rows in key order) and id -i.
RowSeqs(values, docs) == UNION {[1..k -> [v : values, d : docs]] : k \in 0..MaxRows}

\* sgbucket.ViewResult: the store's total may exceed the rows of the page.
ViewResult(rows, extra) ==
    [TotalRows |-> Len(rows) + extra,
     Rows |-> [i \in DOMAIN rows |->
                 [Key |-> i, Value |-> rows[i].v, ID |-> 0 - i, Doc |-> rows[i].d]]]

ZeroViewResult == [TotalRows |-> 0, Rows |-> <<>>]

stripSyncProperty_noop(row) == row

stripSyncProperty(row) ==
    IF row.Doc.present THEN [row EXCEPT !.Doc.sync = FALSE] ELSE row

\* The loop of filterViewResult; panic is the failed type assertion on a
\* value that is not a [channels, actual] pair.
RECURSIVE filterRows(_, _, _, _)
filterRows(rows, checkChannels, visibleChannels, reduce) ==
    IF rows = <<>> THEN [panic |-> FALSE, Rows |-> <<>>]
    ELSE LET row == Head(rows)
             rest == filterRows(Tail(rows), checkChannels, visibleChannels, reduce)
             add(r) == [rest EXCEPT !.Rows = <<r>> \o @]
         IN  IF reduce
             THEN add([Key |-> row.Key, Value |-> row.Value, ID |-> row.ID, Doc |-> NoDoc])
             ELSE IF ~row.Value.tagged
             THEN [panic |-> TRUE, Rows |-> <<>>]
             ELSE IF ~checkChannels \/ channelsIntersect(visibleChannels, row.Value.channels)
             THEN add([Key |-> row.Key, Value |-> PlainValue(row.Value.actual),
                       ID |-> row.ID, Doc |-> stripSyncProperty(row).Doc])
             ELSE rest

filterViewResult(input, user, reduce) ==
    LET visibleChannels == InheritedChannels(user)
        checkChannels == user.present /\ ~Contains(visibleChannels, Wildcard)
    IN  IF user.present /\ reduce
        THEN [panic |-> FALSE, result |-> ZeroViewResult]
        ELSE LET out == filterRows(input.Rows, checkChannels, visibleChannels, reduce)
             IN  IF out.panic
                 THEN [panic |-> TRUE, result |-> ZeroViewResult]
                 ELSE [panic |-> FALSE,
                       result |-> [TotalRows |-> input.TotalRows, Rows |-> out.Rows]]

-----------------------------------------------------------------------------
(* Design documents and the store *)

ViewNames == {"v1", "v2"}

\* A map function: the user's function body, wrapped `wrap' times by wrapViews.
\* A body is the sequence of things the function does when it is called.
EmitStep(k, v) == [op |-> "emit", key |-> k, value |-> v]
ThrowStep == [op |-> "throw", key |-> "-", value |-> "-"]
Steps == {EmitStep("k1", "x"), EmitStep("k2", "y"), ThrowStep}
MapBodies == UNION {[1..n -> Steps] : n \in 0..MaxSteps}

MapFn(body) == [wrap |-> 0, inner |-> body]

\* ddoc.Options: nil, or a struct with Raw set or unset.
DDocOptions == {"nil", "raw", "notraw"}

NoDDoc == [present |-> FALSE, options |-> "nil", views |-> <<>>]

DDoc(options, body1, body2) ==
    [present |-> TRUE, options |-> options,
     views |-> [v \in ViewNames |-> MapFn(IF v = "v1" THEN body1 ELSE body2)]]

\* Design documents the management requests of Spec carry.
DDocInputs == {DDoc(o, <<EmitStep("k1", "x")>>, <<EmitStep("k2", "y")>>) : o \in DDocOptions}

\* Design documents whose first view has an arbitrary body (SpecMap).
MapDDocInputs == {DDoc(o, b, <<>>) : o \in DDocOptions, b \in MapBodies}

wrapViews(ddoc) ==
    [ddoc EXCEPT !.views = [name \in DOMAIN @ |-> [@[name] EXCEPT !.wrap = @ + 1]]]

checkDDocAccess_adminOnly(user, ddocName) ==
    IF user.present THEN "forbidden" ELSE "nil"

checkDDocAccess(user, ddocName) ==
    IF user.present \/ isInternalDDoc(ddocName) THEN "forbidden" ELSE "nil"

\* Outcomes of the store's own operations: success, or a failure of the store.
StoreErrors(ok) == IF ok THEN {"nil", "store_error"} ELSE {"store_error"}

GetDesignDoc(user, ddocName) ==
    LET access == checkDDocAccess(user, ddocName)
    IN  /\ UNCHANGED ddocs
        /\ IF access # "nil"
           THEN call' = [op |-> "GetDesignDoc", user |-> user, ddocName |-> ddocName,
                         storeCalled |-> FALSE, err |-> access, result |-> NoDDoc]
           ELSE \E err \in StoreErrors(ddocs[ddocName].present) :
                   call' = [op |-> "GetDesignDoc", user |-> user, ddocName |-> ddocName,
                            storeCalled |-> TRUE, err |-> err,
                            result |-> IF err = "nil" THEN ddocs[ddocName] ELSE NoDDoc]

PutDesignDoc(user, ddocName, ddoc) ==
    LET wrap == ddoc.options # "raw"
        toStore == IF wrap THEN wrapViews(ddoc) ELSE ddoc
        access == checkDDocAccess(user, ddocName)
    IN  IF access # "nil"
        THEN /\ UNCHANGED ddocs
             /\ call' = [op |-> "PutDesignDoc", user |-> user, ddocName |-> ddocName,
                         ddoc |-> ddoc, storeCalled |-> FALSE, err |-> access]
        ELSE \E err \in StoreErrors(TRUE) :
                /\ ddocs' = IF err = "nil" THEN [ddocs EXCEPT ![ddocName] = toStore] ELSE ddocs
                /\ call' = [op |-> "PutDesignDoc", user |-> user, ddocName |-> ddocName,
                            ddoc |-> ddoc, storeCalled |-> TRUE, err |-> err]

DeleteDesignDoc(user, ddocName) ==
    LET access == checkDDocAccess(user, ddocName)
    IN  IF access # "nil"
        THEN /\ UNCHANGED ddocs
             /\ call' = [op |-> "DeleteDesignDoc", user |-> user, ddocName |-> ddocName,
                         storeCalled |-> FALSE, err |-> access]
        ELSE \E err \in StoreErrors(ddocs[ddocName].present) :
                /\ ddocs' = IF err = "nil" THEN [ddocs EXCEPT ![ddocName] = NoDDoc] ELSE ddocs
                /\ call' = [op |-> "DeleteDesignDoc", user |-> user, ddocName |-> ddocName,
                            storeCalled |-> TRUE, err |-> err]

-----------------------------------------------------------------------------
(* Queries on views *)

\* options["include_docs"], options["reduce"]: each compared with true.
QueryOptions == [include_docs : BOOLEAN, reduce : BOOLEAN]

\* Channel lists on the rows the store serves in Spec.
QueryChannelLists == {<<"a">>, <<"b">>, <<"b", Wildcard>>}

\* db.Bucket.View: what the store can answer.  A view whose map function was
\* wrapped serves [channels, actual] values, an unwrapped one plain values, a
\* reduced one aggregates; documents are embedded only on include_docs.
BucketView(ddocName, viewName, options) ==
    LET ddoc == ddocs[ddocName]
        values == IF ~options.reduce /\ ddoc.views[viewName].wrap > 0
                  THEN {v \in TaggedValues : v.channels \in QueryChannelLists}
                  ELSE PlainValues
        docs == IF options.include_docs THEN Docs \cup {NoDoc} ELSE {NoDoc}
    IN  IF ddoc.present THEN RowSeqs(values, docs) ELSE {}

QueryCall(user, ddocName, viewName, options, viewCalled, input, filtered, err, hasResult, result) ==
    [op |-> "QueryDesignDoc", user |-> user, ddocName |-> ddocName, viewName |-> viewName,
     options |-> options, viewCalled |-> viewCalled, input |-> input, filtered |-> filtered,
     err |-> err, hasResult |-> hasResult, result |-> result]

QueryDesignDoc(user, ddocName, viewName, options) ==
    /\ UNCHANGED ddocs
    /\ IF user.present /\ isInternalDDoc(ddocName)
       THEN call' = QueryCall(user, ddocName, viewName, options, FALSE, ZeroViewResult,
                              FALSE, "forbidden", FALSE, ZeroViewResult)
       ELSE \/ call' = QueryCall(user, ddocName, viewName, options, TRUE, ZeroViewResult,
                                 FALSE, "store_error", FALSE, ZeroViewResult)
            \/ \E served \in BucketView(ddocName, viewName, options), extra \in {0, 1} :
                  LET input == ViewResult(served, extra) IN
                  IF isInternalDDoc(ddocName)
                  THEN LET rows == IF options.include_docs
                                   THEN [i \in DOMAIN input.Rows |->
                                            stripSyncProperty(input.Rows[i])]
                                   ELSE input.Rows
                       IN  call' = QueryCall(user, ddocName, viewName, options, TRUE, input,
                                             FALSE, "nil", TRUE, [input EXCEPT !.Rows = rows])
                  ELSE LET out == filterViewResult(input, user, options.reduce)
                       IN  call' = QueryCall(user, ddocName, viewName, options, TRUE, input,
                                             TRUE, IF out.panic THEN "panic" ELSE "nil",
                                             ~out.panic, out.result)

-----------------------------------------------------------------------------
(* Specification of the design-document operations *)

NoCall == [op |-> "none"]

\* The built-in design document is installed by the gateway itself.
Init ==
    /\ ddocs = [n \in DDocNames |->
                   IF n = DesignDocSyncGateway
                   THEN DDoc("nil", <<EmitStep("k1", "x")>>, <<EmitStep("k2", "y")>>)
                   ELSE NoDDoc]
    /\ call = NoCall

\* The response is delivered and the next request may start.
Return ==
    /\ call.op # "none"
    /\ call' = NoCall
    /\ UNCHANGED ddocs

\* Requests are served one at a time, each to completion.
Idle == call.op = "none"

Next ==
    \/ Idle /\ \E user \in Users, ddocName \in DDocNames : GetDesignDoc(user, ddocName)
    \/ Idle /\ \E user \in Users, ddocName \in DDocNames, ddoc \in DDocInputs :
                  PutDesignDoc(user, ddocName, ddoc)
    \/ Idle /\ \E user \in Users, ddocName \in DDocNames : DeleteDesignDoc(user, ddocName)
    \/ Idle /\ \E user \in Users, ddocName \in DDocNames, viewName \in ViewNames,
                  options \in QueryOptions : QueryDesignDoc(user, ddocName, viewName, options)
    \/ Return

Spec == Init /\ [][Next]_vars

-----------------------------------------------------------------------------
(* Properties of the design-document operations (Spec) *)

\* The reserved marker, character by character.
Reserved(name) ==
    /\ Len(name) >= 5
    /\ name[1] = "s" /\ name[2] = "y" /\ name[3] = "n" /\ name[4] = "c" /\ name[5] = "_"

Restricted(user) == user.present /\ Wildcard \notin user.channels

Management == {"GetDesignDoc", "PutDesignDoc", "DeleteDesignDoc"}

\* C2: a query by an end user on a reserved name is refused with Forbidden,
\* without a result and without a call of the store's view; no other query is
\* refused by the gate.
C2_QueryGate ==
    call.op = "QueryDesignDoc" =>
        /\ (call.user.present /\ Reserved(call.ddocName)) =>
               (call.err = "forbidden" /\ ~call.hasResult /\ ~call.viewCalled)
        /\ call.err = "forbidden" => (call.user.present /\ Reserved(call.ddocName))

C2_Witness ==
    /\ call.op = "QueryDesignDoc"
    /\ call.user.present /\ call.user.channels = {"a"}
    /\ call.ddocName = DesignDocSyncGateway
    /\ call.err = "forbidden"

\* C3 as stated: management is refused exactly when a principal is attached,
\* and an administrator is let through to the store for every name.
C3_Original ==
    call.op \in Management =>
        IF call.user.present
        THEN call.err = "forbidden" /\ ~call.storeCalled
        ELSE call.err # "forbidden" /\ call.storeCalled

\* C3 amended: management is refused with Forbidden, without a call of the
\* store, when a principal is attached or the name is reserved; otherwise it
\* is passed to the store, whose outcome is the outcome of the request.
C3_ManagementGate ==
    call.op \in Management =>
        IF call.user.present \/ Reserved(call.ddocName)
        THEN call.err = "forbidden" /\ ~call.storeCalled
        ELSE /\ call.err # "forbidden" /\ call.storeCalled
             /\ (call.op = "PutDesignDoc" /\ call.err = "nil") => ddocs[call.ddocName].present
             /\ (call.op = "DeleteDesignDoc" /\ call.err = "nil") => ~ddocs[call.ddocName].present
             /\ (call.op = "GetDesignDoc" /\ call.err = "nil") => call.result = ddocs[call.ddocName]

C3_Witness ==
    /\ call.op = "PutDesignDoc"
    /\ ~call.user.present
    /\ call.ddocName = DesignDocSyncGateway
    /\ call.err = "forbidden" /\ ~call.storeCalled

\* C4: an aggregate query of a restricted user on a user-defined index ends in
\* an error and no result; the same query of an administrator ends in no error.
C4_AggregateRefusal ==
    (call.op = "QueryDesignDoc" /\ call.filtered /\ call.options.reduce) =>
        /\ Restricted(call.user) => (call.err # "nil" /\ ~call.hasResult)
        /\ ~call.user.present => call.err = "nil"

\* C5: no row of a result of QueryDesignDoc embeds a document that still has
\* its "_sync" property.
C5_NoSyncInResult ==
    (call.op = "QueryDesignDoc" /\ call.hasResult) =>
        \A i \in DOMAIN call.result.Rows :
            ~(call.result.Rows[i].Doc.present /\ call.result.Rows[i].Doc.sync)

C5_Witness ==
    /\ call.op = "QueryDesignDoc" /\ call.hasResult
    /\ call.ddocName = DesignDocSyncGateway
    /\ call.options.include_docs
    /\ Len(call.input.Rows) = MaxRows
    /\ \A i \in DOMAIN call.input.Rows :
          call.input.Rows[i].Doc.present /\ call.input.Rows[i].Doc.sync
    /\ \A i \in DOMAIN call.result.Rows : call.result.Rows[i].Doc.present

\* C9: a design document put with raw set is stored with its map functions as
\* given, and a query on a raw design document never reaches filterViewResult.
C9_RawIsolation ==
    /\ (call.op = "PutDesignDoc" /\ call.err = "nil" /\ call.ddoc.options = "raw") =>
           ddocs[call.ddocName].views = call.ddoc.views
    /\ (call.op = "QueryDesignDoc" /\ call.viewCalled /\ call.err # "store_error"
          /\ ddocs[call.ddocName].options = "raw") =>
           (~call.filtered /\ ~call.user.present /\ Reserved(call.ddocName))

-----------------------------------------------------------------------------
(* The result filter on its own (SpecFilter) *)

\* filterViewResult applied to the result of a channel-tagged index: tagged
\* values for a plain query, aggregates for a reduced one.
FilterViewResult(input, user, reduce) ==
    LET out == filterViewResult(input, user, reduce)
    IN  /\ call' = [op |-> "filterViewResult", input |-> input, user |-> user,
                    reduce |-> reduce, panic |-> out.panic, result |-> out.result]
        /\ UNCHANGED ddocs

FilterInputs(reduce) ==
    RowSeqs(IF reduce THEN PlainValues ELSE TaggedValues, Docs \cup {NoDoc})

NextFilter ==
    \/ Idle /\ \E user \in Users, reduce \in BOOLEAN :
                  \E rows \in FilterInputs(reduce), extra \in {0, 1} :
                      FilterViewResult(ViewResult(rows, extra), user, reduce)
    \/ Return

SpecFilter == Init /\ [][NextFilter]_vars

Range(seq) == {seq[i] : i \in DOMAIN seq}

\* C1: for a user and a plain query, the result is the subsequence of the
\* input rows whose channel list meets the user's channels, or holds the
\* wildcard, or whose user holds the wildcard; each row keeps key and id and
\* carries the actual value, never the channel list.
C1_FilterExact ==
    (call.op = "filterViewResult" /\ call.user.present /\ ~call.reduce) =>
        LET auth == call.user.channels
            Retained(row) ==
                \/ Range(row.Value.channels) \cap auth # {}
                \/ Wildcard \in auth
                \/ Wildcard \in Range(row.Value.channels)
            expected == SelectSeq(call.input.Rows, Retained)
            got == call.result.Rows
        IN  /\ ~call.panic
            /\ Len(got) = Len(expected)
            /\ \A i \in DOMAIN got :
                  /\ got[i].Key = expected[i].Key
                  /\ got[i].ID = expected[i].ID
                  /\ ~got[i].Value.tagged
                  /\ got[i].Value.channels = <<>>
                  /\ got[i].Value.actual = expected[i].Value.actual

C1_Witness ==
    /\ call.op = "filterViewResult" /\ ~call.reduce
    /\ call.user.present /\ call.user.channels = {"a"}
    /\ Len(call.input.Rows) = 2
    /\ call.input.Rows[1].Value.channels = <<"b">>
    /\ call.input.Rows[2].Value.channels = <<"b", Wildcard>>
    /\ Len(call.result.Rows) = 1
    /\ call.result.Rows[1].Key = 2

\* C8: for a caller without a user or with the wildcard, and either value of
\* reduce, the result has one row per input row, in order, and the total of
\* the store.
C8_UnrestrictedPassThrough ==
    (call.op = "filterViewResult" /\ ~Restricted(call.user)) =>
        /\ ~call.panic
        /\ call.result.TotalRows = call.input.TotalRows
        /\ Len(call.result.Rows) = Len(call.input.Rows)
        /\ \A i \in DOMAIN call.result.Rows :
              /\ call.result.Rows[i].Key = call.input.Rows[i].Key
              /\ call.result.Rows[i].ID = call.input.Rows[i].ID

-----------------------------------------------------------------------------
(* N1QL queries (SpecN1QL) *)

\* The projection that makes a query channel-aware, and the prefix tested.
ChannelProjection == <<"_sync.channels", "as", "_channels,">>
MetaPrefix == <<"SELECT">> \o ChannelProjection

QueryNames == {"byChannel", "late", "all", "missing"}

\* db.N1QLQueries: the registered query texts; "" for a name not registered.
N1QLQueries ==
    [q \in QueryNames |->
        CASE q = "byChannel" -> MetaPrefix \o <<"type", "FROM", "db">>
          [] q = "late" -> <<"SELECT", "type,">> \o ChannelProjection \o <<"id", "FROM", "db">>
          [] q = "all" -> <<"SELECT", "*", "FROM", "db">>
          [] OTHER -> <<>>]

N1QLChannels == {"a", "b", Wildcard}

\* row["_channels"]: nil, or a map from channel name to nil (live) or to the
\* removal entry.
NoChannelMap == [present |-> FALSE, status |-> <<>>]
ChannelMaps ==
    {NoChannelMap} \cup
    {[present |-> TRUE, status |-> m] :
        m \in UNION {[S -> {"nil", "removed"}] : S \in SUBSET N1QLChannels}}

\* The rows of a cursor, by their "_channels"; row i is given the id i.
N1QLRowSeqs == UNION {[1..k -> ChannelMaps] : k \in 0..MaxRows}

N1QLRows(maps) == [i \in DOMAIN maps |-> [id |-> i, channels |-> maps[i]]]

RECURSIVE SetToSeq(_)
SetToSeq(S) ==
    IF S = {} THEN <<>>
    ELSE LET x == CHOOSE y \in S : TRUE IN <<x>> \o SetToSeq(S \ {x})

docChannelsList_all(docChannels) == SetToSeq(DOMAIN docChannels)

\* The keys whose status is nil, in the order the map is ranged over (the
\* order does not change what channelsIntersect answers).
docChannelsList(docChannels) == SetToSeq({k \in DOMAIN docChannels : docChannels[k] = "nil"})

RECURSIVE scanRows(_, _, _)
scanRows(rows, checkChannels, visibleChannels) ==
    IF rows = <<>> THEN <<>>
    ELSE LET row == Head(rows)
             rest == scanRows(Tail(rows), checkChannels, visibleChannels)
         IN  IF checkChannels
             THEN IF row.channels.present
                     /\ channelsIntersect(visibleChannels, docChannelsList(row.channels.status))
                  THEN <<row>> \o rest
                  ELSE rest
             ELSE <<row>> \o rest

\* db.N1QLConnection.ExecuteN1qlQuery: a cursor over rows, or a failure, whose
\* cursor is nil or has nothing to give.
NoCursor == [present |-> FALSE, rows |-> <<>>]
ExecuteN1qlQuery ==
    {[failed |-> FALSE, cursor |-> [present |-> TRUE, rows |-> N1QLRows(maps)]] :
        maps \in N1QLRowSeqs}
    \cup {[failed |-> TRUE, cursor |-> NoCursor],
          [failed |-> TRUE, cursor |-> [present |-> TRUE, rows |-> <<>>]]}

N1QLCall(user, queryName, executed, exec, scanned, err, hasResult, rows) ==
    [op |-> "N1QLQuery", user |-> user, queryName |-> queryName, executed |-> executed,
     exec |-> exec, scanned |-> scanned, err |-> err, hasResult |-> hasResult, rows |-> rows]

NoExec == [failed |-> FALSE, cursor |-> NoCursor]

N1QLQuery(user, queryName) ==
    LET queryString == N1QLQueries[queryName]
        hasMeta == HasPrefix(queryString, MetaPrefix)
        visibleChannels == InheritedChannels(user)
        checkChannels == user.present /\ ~Contains(visibleChannels, Wildcard)
    IN  /\ UNCHANGED ddocs
        /\ IF queryString = <<>>
           THEN call' = N1QLCall(user, queryName, FALSE, NoExec, FALSE, "nil", TRUE, <<>>)
           ELSE IF checkChannels /\ ~hasMeta
           THEN call' = N1QLCall(user, queryName, FALSE, NoExec, FALSE, "forbidden", FALSE, <<>>)
           ELSE \E exec \in ExecuteN1qlQuery :
                   IF ~exec.cursor.present
                   THEN call' = N1QLCall(user, queryName, TRUE, exec, FALSE, "panic", FALSE, <<>>)
                   ELSE call' = N1QLCall(user, queryName, TRUE, exec, TRUE, "nil", TRUE,
                                         scanRows(exec.cursor.rows, checkChannels, visibleChannels))

NextN1QL ==
    \/ Idle /\ \E user \in Users, queryName \in QueryNames : N1QLQuery(user, queryName)
    \/ Return

SpecN1QL == Init /\ [][NextN1QL]_vars

\* The projection occurs somewhere in the text.
Carries(queryString) ==
    \E i \in 1..Len(queryString) :
        /\ i + Len(ChannelProjection) - 1 <= Len(queryString)
        /\ SubSeq(queryString, i, i + Len(ChannelProjection) - 1) = ChannelProjection

LiveNames(row) ==
    IF row.channels.present
    THEN {k \in DOMAIN row.channels.status : row.channels.status[k] = "nil"}
    ELSE {}

\* C6 as stated: for a registered query carrying the projection and a
\* restricted user the rows returned are those whose live names meet the
\* user's channels; an unrestricted caller gets every row.
C6_Original ==
    (call.op = "N1QLQuery" /\ N1QLQueries[call.queryName] # <<>>
       /\ (call.executed => call.exec.cursor.present)) =>
        LET Meets(row) == LiveNames(row) \cap call.user.channels # {}
        IN  /\ (Restricted(call.user) /\ Carries(N1QLQueries[call.queryName])) =>
                   (call.hasResult /\ call.rows = SelectSeq(call.exec.cursor.rows, Meets))
            /\ ~Restricted(call.user) =>
                   (call.hasResult /\ call.rows = call.exec.cursor.rows)

\* C6 amended: for a registered query whose text starts with the projection
\* prefix and a restricted user, whenever the store hands back a cursor the
\* rows returned are, in store order, those whose live names meet the user's
\* channels or include the wildcard; an unrestricted caller of a registered
\* query gets every row of the cursor in store order.
C6_N1QLFilter ==
    (call.op = "N1QLQuery" /\ N1QLQueries[call.queryName] # <<>>
       /\ call.executed /\ call.exec.cursor.present) =>
        LET q == N1QLQueries[call.queryName]
            Visible(row) ==
                \/ LiveNames(row) \cap call.user.channels # {}
                \/ Wildcard \in LiveNames(row)
        IN  /\ (Restricted(call.user) /\ Len(q) >= 4 /\ SubSeq(q, 1, 4) = MetaPrefix) =>
                   (call.hasResult /\ call.rows = SelectSeq(call.exec.cursor.rows, Visible))
            /\ ~Restricted(call.user) =>
                   (call.hasResult /\ call.rows = call.exec.cursor.rows)

C6_Witness ==
    /\ call.op = "N1QLQuery" /\ call.queryName = "byChannel"
    /\ call.user.present /\ call.user.channels = {"a"}
    /\ ~call.exec.failed
    /\ Len(call.exec.cursor.rows) = 2
    /\ LiveNames(call.exec.cursor.rows[1]) = {"b"}
    /\ "a" \in DOMAIN call.exec.cursor.rows[1].channels.status
    /\ LiveNames(call.exec.cursor.rows[2]) = {Wildcard}
    /\ Len(call.rows) = 1 /\ call.rows[1].id = 2

\* C7: when the store's execution of the query fails, the request ends in
\* that error, without a result and without a scan of a cursor.
C7_StoreFailurePropagated ==
    (call.op = "N1QLQuery" /\ call.executed /\ call.exec.failed) =>
        (call.err = "store_error" /\ ~call.hasResult /\ ~call.scanned)

-----------------------------------------------------------------------------
(* The wrapped map function at index time (SpecMap) *)

\* channelMap[name]: null or false for a live channel, true or a removal
\* entry for a removed one.
Markers == {"null", "false", "true", "object"}
Entry(name, removed) == [name |-> name, removed |-> removed]

\* sync.channels: undefined, or the entries in property order.
NoChannels == [defined |-> FALSE, entries |-> <<>>]
SyncChannels ==
    {NoChannels} \cup
    {[defined |-> TRUE, entries |-> e] :
        e \in {<<>>,
               <<Entry("A", "null")>>,
               <<Entry("A", "true")>>,
               <<Entry("A", "null"), Entry("B", "object")>>,
               <<Entry("B", "object"), Entry("A", "false")>>,
               <<Entry("B", "null"), Entry("A", "null")>>}}

\* doc._sync: undefined, or the metadata block.
NoSync == [defined |-> FALSE, flags |-> 0, deleted |-> "undefined", channels |-> NoChannels,
           rev |-> "-"]
SyncBlocks ==
    {NoSync} \cup
    [defined : {TRUE}, flags : {0, 1, 2, 3}, deleted : {"undefined", "false", "true"},
     channels : SyncChannels, rev : {"1-x"}]

IndexedDocs == [sync : SyncBlocks, body : {"data"}]

\* meta.id: a metadata record, an ordinary document, and an id shorter than
\* the marker.
SyncIdPrefix == <<"_", "s", "y", "n", "c", ":">>
DocIds == {SyncIdPrefix \o <<"u">>, <<"d", "o", "c", "1">>, <<"_", "s", "y", "n", "c">>}

RECURSIVE liveChannels_all(_)
liveChannels_all(entries) ==
    IF entries = <<>> THEN <<>>
    ELSE <<Head(entries).name>> \o liveChannels_all(Tail(entries))

\* The for-in loop: a name is pushed when its marker is falsy.
RECURSIVE liveChannels(_)
liveChannels(entries) ==
    IF entries = <<>> THEN <<>>
    ELSE IF Head(entries).removed \in {"true", "object"}
         THEN liveChannels(Tail(entries))
         ELSE <<Head(entries).name>> \o liveChannels(Tail(entries))

\* The user's function: its emits up to the first throw.
RECURSIVE runBody(_)
runBody(body) ==
    IF body = <<>> THEN [emitted |-> <<>>, thrown |-> FALSE]
    ELSE IF Head(body).op = "throw" THEN [emitted |-> <<>>, thrown |-> TRUE]
    ELSE LET rest == runBody(Tail(body))
         IN  [rest EXCEPT !.emitted = <<[key |-> Head(body).key, value |-> Head(body).value]>> \o @]

NotCalled == [called |-> FALSE, sawSync |-> FALSE, rev |-> "-", channels |-> <<>>]

\* A map function run by the store on (doc, meta): what it emits, the document
\* object afterwards, whether it ended by an exception, and what the user's
\* function was handed.
RECURSIVE runMap(_, _, _, _)
runMap(wrap, body, doc, meta) ==
    IF wrap = 0
    THEN LET r == runBody(body)
         IN  [emitted |-> [i \in DOMAIN r.emitted |->
                              [key |-> r.emitted[i].key, value |-> PlainValue(r.emitted[i].value)]],
              doc |-> doc, thrown |-> r.thrown,
              inner |-> [called |-> TRUE, sawSync |-> doc.sync.defined,
                         rev |-> meta.rev, channels |-> meta.channels]]
    ELSE LET sync == doc.sync
             nothing == [emitted |-> <<>>, doc |-> doc, thrown |-> FALSE, inner |-> NotCalled]
         IN  IF ~sync.defined \/ Substring0(meta.id, 6) = SyncIdPrefix
             THEN nothing
             ELSE IF sync.flags % 2 = 1 \/ sync.deleted = "true"
             THEN nothing
             ELSE LET channels == IF sync.channels.defined
                                  THEN liveChannels(sync.channels.entries)
                                  ELSE <<>>
                      run == runMap(wrap - 1, body, [doc EXCEPT !.sync = NoSync],
                                   [meta EXCEPT !.rev = sync.rev, !.channels = channels])
                  IN  [emitted |-> [i \in DOMAIN run.emitted |->
                                       [key |-> run.emitted[i].key,
                                        value |-> [tagged |-> TRUE, channels |-> channels,
                                                   actual |-> run.emitted[i].value.actual]]],
                       doc |-> IF run.thrown THEN run.doc ELSE [run.doc EXCEPT !.sync = sync],
                       thrown |-> run.thrown,
                       inner |-> run.inner]

\* The store builds the index: it runs a stored map function on a document.
MapDocument(ddocName, viewName, doc, id) ==
    LET fn == ddocs[ddocName].views[viewName]
        out == runMap(fn.wrap, fn.inner, doc, [id |-> id, rev |-> "-", channels |-> <<>>])
    IN  /\ ddocs[ddocName].present
        /\ call' = [op |-> "MapDocument", ddocName |-> ddocName, viewName |-> viewName,
                    doc |-> doc, id |-> id, emitted |-> out.emitted, docAfter |-> out.doc,
                    thrown |-> out.thrown, inner |-> out.inner]
        /\ UNCHANGED ddocs

NextMap ==
    \/ Idle /\ \E ddoc \in MapDDocInputs : PutDesignDoc(NoUser, NameByType, ddoc)
    \/ Idle /\ \E ddocName \in DDocNames, viewName \in ViewNames, doc \in IndexedDocs,
                  id \in DocIds : MapDocument(ddocName, viewName, doc, id)
    \/ Return

SpecMap == Init /\ [][NextMap]_vars

====
